---- MODULE Spec2Model ----
(***************************************************************************)
(* Lifecycle model of maptalks' ui.UIComponent (src/unnamed/part_000):     *)
(* addTo / show / hide / remove, the per-map singleton DOM slot, the hide  *)
(* animation timers, the next-frame reposition callbacks and the map's     *)
(* overlay tracking list.                                                  *)
(*                                                                         *)
(* Every handler of the class is a function from a state record to a state *)
(* record (show, hide, remove, _removePrevDOM, ...), composed exactly in   *)
(* the order of the statements of the source.  The actions of the module   *)
(* apply one handler to the current state.                                 *)
(***************************************************************************)
EXTENDS Integers, Sequences, FiniteSets, TLC

\* ---------------------------------------------------------------- bounds
MaxDom == 3          \* size of the pool of element identities
MaxTimers == 1       \* pending setTimeout callbacks of hide()
MaxFrameCbs == 2     \* pending callInNextFrame callbacks per overlay
MaxView == 1         \* the map's views are 0..MaxView
MaxCoord == 1        \* the geographic coordinates are 0..MaxCoord
MaxLen == 3          \* length of options.animation, in lexical units

\* ------------------------------------------------------------- universe
UI == {"A", "B"}                 \* two instances of the same class, one map
Owners == {"map", "geo", "orphan"} \* the map, a geometry on it, a geometry on no map
Geometries == {"geo", "orphan"}  \* owners that are instanceof Geometry
None == "none"                   \* undefined / null (an owner, an overlay)
NoDom == 0                       \* undefined / null (an element)
DomIds == 1..MaxDom
Views == 0..MaxView              \* zoom / center / bearing / pitch / size of the map
Coords == 0..MaxCoord
NoCoord == -1                    \* undefined (a coordinate)
NoPoint == <<>>                  \* null (a Point)
NoOffset == <<>>                 \* the subclass has no getOffset
Scale == 4                       \* pixel values are counted in 1/Scale pixel
DefaultDuration == 500           \* options.animationDuration
Margin == 50                     \* the margin of _autoPan, in pixels
MapWidth == 8                    \* map.width, in pixels
MapHeight == 8                   \* map.height, in pixels

\* options.animation is a string, written as the sequence of its lexical units:
\* the words fade and scale, any other word, a blank, a comma
Lex == {"fade", "scale", "x", " ", ","}
\* options.animation values given to the instances: '' and 'scale'
AnimationOptions == {<<>>, <<"scale">>}

VARIABLES
    single,           \* options.single
    animation,        \* options.animation, split at ','
    animationOnHide,  \* options.animationOnHide
    animationDuration,\* options.animationDuration
    roundPoint,       \* options.roundPoint
    dx,               \* options.dx
    dy,               \* options.dy
    getOffset,        \* what the subclass's getOffset() returns
    autoPan,          \* options.autoPan
    clientSize,       \* <<clientWidth, clientHeight>> of the elements buildOn returns, in pixels
    isMoving,         \* what map.isMoving() returns
    view,             \* the map's current view
    center,           \* center[o]: what the geometry o's getCenter() returns
    coordinate,       \* this._coordinate
    showBySymbolChange, \* this._showBySymbolChange
    owner,            \* this._owner
    optVisible,       \* this.options.visible
    uiDOM,            \* this.__uiDOM
    mapEventsOn,      \* this._mapEventsOn is truthy
    pos,              \* this._pos
    el,               \* the DOM elements built by buildOn
    slot,             \* map['__ui_UIComponent']
    mapListeners,     \* overlays whose default events are registered on the map
    ownerSubs,        \* <<overlay, owner>>: owner events registered on owner
    uiList,           \* map.uiList (maintained by map._addUI / map._removeUI)
    uiCollidesQueue,  \* map's collision queue is non-empty
    timers,           \* timers[d]: pending hide timers that captured element d
    staleTimers,      \* staleTimers[u]: pending hide timers of u whose element nothing else references
    frameCbs,         \* frameCbs[u]: _setPosition callbacks queued for the next frame
    resizeObserver,   \* this._resizeObserver is set
    observations,     \* <<overlay, element>>: the overlay's ResizeObserver observes the element
    domContentRect,   \* this._domContentRect is set
    last              \* the last call: operation, receiver, emitted events, outcome

config == <<single, animation, animationOnHide, animationDuration, roundPoint, dx, dy,
           getOffset, autoPan, clientSize, isMoving>>
vars == <<single, animation, animationOnHide, animationDuration, roundPoint, dx, dy,
          getOffset, autoPan, clientSize, isMoving, view, center, coordinate, showBySymbolChange, owner, optVisible,
          uiDOM, mapEventsOn, pos, el, slot, mapListeners, ownerSubs, uiList,
          uiCollidesQueue, timers, staleTimers, frameCbs, resizeObserver, observations,
          domContentRect, last>>

\* an element that has not been built (or is no longer referenced by anything)
\* style.transition is the list _getAnimation builds (<<>>: null or unset),
\* style.opacity is "", "0" or "1", scale is the scale(..) factor of style.transform
EmptyEl == [builder |-> None, parent |-> FALSE, display |-> "", uiComponent |-> None,
            transition |-> <<>>, opacity |-> "", scale |-> ""]

\* the mutable program state as one record; trace/threw describe the running call
State == [owner |-> owner, optVisible |-> optVisible, uiDOM |-> uiDOM,
          mapEventsOn |-> mapEventsOn, pos |-> pos, el |-> el, slot |-> slot,
          mapListeners |-> mapListeners, ownerSubs |-> ownerSubs,
          uiList |-> uiList, uiCollidesQueue |-> uiCollidesQueue,
          timers |-> timers, staleTimers |-> staleTimers, frameCbs |-> frameCbs,
          resizeObserver |-> resizeObserver, observations |-> observations,
          domContentRect |-> domContentRect,
          view |-> view, center |-> center, coordinate |-> coordinate,
          showBySymbolChange |-> showBySymbolChange,
          trace |-> <<>>, pans |-> <<>>, threw |-> FALSE]

RECURSIVE Sum(_, _)
Sum(f, S) == IF S = {} THEN 0
             ELSE LET x == CHOOSE y \in S : TRUE IN f[x] + Sum(f, S \ {x})
TimerCount(s) == Sum(s.timers, DomIds) + Sum(s.staleTimers, UI)

\* ----------------------------------------------------------- collaborators
\* Geometry.getMap(): the map the geometry's layer is on
OwnerMap(o) == IF o = "geo" THEN "map" ELSE None

\* owner.getCenter(); the map's center is part of its view
getCenter(s, o) == IF o = "map" THEN s.view % (MaxCoord + 1) ELSE s.center[o]

\* map.viewPointToContainerPoint(point): the map's panel lies at the origin of
\* its container
viewPointToContainerPoint(p) == p

\* map._panAnimation(target), recorded as the shift <<left, top>> the target was
\* computed from
_panAnimation(s, left, top) == [s EXCEPT !.pans = Append(@, <<left, top>>)]

\* Point arithmetic: _add, and _round (Math.round on both members)
Add(p, q) == <<p[1] + q[1], p[2] + q[2]>>
Round(x) == ((x + Scale \div 2) \div Scale) * Scale
RoundPt(p) == <<Round(p[1]), Round(p[2])>>
Abs(x) == IF x < 0 THEN -x ELSE x

\* map.coordToViewPoint(coordinate): the projection of the coordinate in the
\* map's view v, not rounded
coordToViewPoint(v, c) == <<3 * c + 5 * v, 2 * v - 3 * c>>

\* what a call did, in order: notifications, container and slot writes, collision
\* registrations
Ev(kind, u, type, d) == [kind |-> kind, ui |-> u, type |-> type, dom |-> d]
Log(s, e) == [s EXCEPT !.trace = Append(@, e)]

\* Eventable.fire: a notification is delivered to the listeners, in call order
fire(s, u, type) == Log(s, Ev("fire", u, type, NoDom))

\* dom util removeDomNode: detach the node from its parent if it has one
removeDomNode(s, d) ==
    IF s.el[d].parent
    THEN Log([s EXCEPT !.el[d].parent = FALSE], Ev("detach", None, "", d))
    ELSE s

\* container.appendChild(dom)
appendChild(s, d) == Log([s EXCEPT !.el[d].parent = TRUE], Ev("append", None, "", d))

\* map._addUI / map._removeUI / map._insertUICollidesQueue
addUI(s, u) == [s EXCEPT !.uiList = @ \cup {u}]
removeUI(s, u) == [s EXCEPT !.uiList = @ \ {u}]
insertUICollidesQueue(s) == [s EXCEPT !.uiCollidesQueue = TRUE]

\* Eventable.on / Eventable.off on the map and on an owner (a handler with the
\* same context is registered once)
mapOn(s, u) == Log([s EXCEPT !.mapListeners = @ \cup {u}], Ev("on", u, "map", NoDom))
mapOff(s, u) == Log([s EXCEPT !.mapListeners = @ \ {u}], Ev("off", u, "map", NoDom))
ownerOn(s, u, o) == [s EXCEPT !.ownerSubs = @ \cup {<<u, o>>}]
ownerOff(s, u, o) == [s EXCEPT !.ownerSubs = @ \ {<<u, o>>}]

\* ------------------------------------------------------------- UIComponent
getMap(s, u) ==
    IF s.owner[u] = None THEN None
    ELSE IF s.owner[u] = "map" THEN "map"
    ELSE OwnerMap(s.owner[u])

getDOM(s, u) == s.uiDOM[u]

_singleton(u) == single[u]

\* as isVisible, without the check for a map
isVisible_noMap(s, u) ==
    /\ s.optVisible[u]
    /\ getDOM(s, u) # NoDom
    /\ s.el[getDOM(s, u)].parent
    /\ s.el[getDOM(s, u)].display # "none"

isVisible(s, u) ==
    /\ s.optVisible[u]
    /\ getMap(s, u) # None
    /\ getDOM(s, u) # NoDom
    /\ s.el[getDOM(s, u)].parent
    /\ s.el[getDOM(s, u)].display # "none"

_collides(s, u) ==
    IF getMap(s, u) = None THEN s
    ELSE Log(insertUICollidesQueue(addUI(s, u)), Ev("collides", u, "", NoDom))

\* String.prototype.split(',')
RECURSIVE split(_)
split(str) ==
    IF \A i \in 1..Len(str) : str[i] # ","
    THEN <<str>>
    ELSE LET i == CHOOSE k \in 1..Len(str) :
                      str[k] = "," /\ \A j \in 1..(k - 1) : str[j] # ","
         IN <<SubSeq(str, 1, i - 1)>> \o split(SubSeq(str, i + 1, Len(str)))

\* util trim: the blanks at both ends are dropped
RECURSIVE trim(_)
trim(str) ==
    IF str = <<>> THEN str
    ELSE IF Head(str) = " " THEN trim(Tail(str))
    ELSE IF str[Len(str)] = " " THEN trim(SubSeq(str, 1, Len(str) - 1))
    ELSE str

\* the loop of _getAnimation over the split list: some trimmed entry is tok
HasToken(list, tok) == \E i \in 1..Len(list) : trim(list[i]) = <<tok>>

\* as _getAnimation, but the entries of the list are not trimmed
_getAnimation_noTrim(str, duration) ==
    LET animations == IF str # <<>> THEN split(str) ELSE <<>>
        fade == \E i \in 1..Len(animations) : animations[i] = <<"fade">>
        scale == \E i \in 1..Len(animations) : animations[i] = <<"scale">>
        t1 == IF fade THEN <<[property |-> "opacity", ms |-> duration]>> ELSE <<>>
        transition == IF scale THEN Append(t1, [property |-> "transform", ms |-> duration])
                      ELSE t1
    IN [fade |-> fade, scale |-> scale, transition |-> transition, ok |-> (transition # <<>>)]

\* the animation plan; transition is the list of 'property duration ms' entries
\* joined by ',' in the source, <<>> is null
_getAnimation(str, duration) ==
    LET animations == IF str # <<>> THEN split(str) ELSE <<>>
        fade == HasToken(animations, "fade")
        scale == HasToken(animations, "scale")
        t1 == IF fade THEN <<[property |-> "opacity", ms |-> duration]>> ELSE <<>>
        transition == IF scale THEN Append(t1, [property |-> "transform", ms |-> duration])
                      ELSE t1
    IN [fade |-> fade, scale |-> scale, transition |-> transition, ok |-> (transition # <<>>)]

_getOwnerEvents(s, u) ==
    IF s.owner[u] # None /\ s.owner[u] \in Geometries
    THEN {"positionchange", "symbolchange"} ELSE {}

\* as _switchMapEvents, but only the flag is written, the map is not called
_switchMapEvents_flagOnly(s, u, to) ==
    IF getMap(s, u) = None THEN s
    ELSE [s EXCEPT !.mapEventsOn[u] = (to = "on")]

_switchMapEvents(s, u, to) ==
    IF getMap(s, u) = None THEN s
    ELSE LET s1 == [s EXCEPT !.mapEventsOn[u] = (to = "on")]
         IN IF to = "on" THEN mapOn(s1, u) ELSE mapOff(s1, u)

\* as _switchEvents, but 'off' does not reach the owner
_switchEvents_noOff(s, u, to) ==
    IF s.owner[u] # None /\ _getOwnerEvents(s, u) # {} /\ to = "on"
    THEN ownerOn(s, u, s.owner[u])
    ELSE s

_switchEvents(s, u, to) ==
    IF s.owner[u] # None /\ _getOwnerEvents(s, u) # {}
    THEN IF to = "on" THEN ownerOn(s, u, s.owner[u]) ELSE ownerOff(s, u, s.owner[u])
    ELSE s

_roundPoint(u, point) == IF roundPoint[u] THEN RoundPt(point) ELSE point

_getViewPoint(s, u) == Add(coordToViewPoint(s.view, s.coordinate[u]), <<dx[u], dy[u]>>)

getPosition(s, u) ==
    IF getMap(s, u) = None THEN NoPoint
    ELSE LET p == _roundPoint(u, _getViewPoint(s, u))
         IN IF getOffset[u] # NoOffset
            THEN Add(p, _roundPoint(u, getOffset[u]))
            ELSE p

_setPosition(s, u) ==
    LET d == getDOM(s, u) IN
    IF d = NoDom THEN s
    ELSE Log([s EXCEPT !.el[d].transition = <<>>, !.pos[u] = getPosition(s, u),
                       !.el[d].scale = "1"],
             Ev("pose", u, "", d))

\* as _updatePosition, without the map check
_updatePosition_noGuard(s, u) == [s EXCEPT !.frameCbs[u] = @ + 1]

_updatePosition(s, u) ==
    IF getMap(s, u) = None THEN s
    ELSE [s EXCEPT !.frameCbs[u] = @ + 1]

\* the end of _removePrevDOM: the caller's ResizeObserver is disconnected and
\* the size it reported is forgotten
_disposeObserver(s, u) ==
    IF s.resizeObserver[u]
    THEN [s EXCEPT !.observations = {o \in @ : o[1] # u},
                   !.resizeObserver[u] = FALSE,
                   !.domContentRect[u] = FALSE]
    ELSE s

\* _observerDomSize(dom), in a browser that has ResizeObserver
_observerDomSize(s, u, d) ==
    IF d = NoDom \/ s.resizeObserver[u] THEN s
    ELSE [s EXCEPT !.resizeObserver[u] = TRUE, !.observations = @ \cup {<<u, d>>}]

\* as _removePrevDOM, but the slot's element stays in the container
_removePrevDOM_keepNode(s, u) ==
    _disposeObserver(
    IF _singleton(u)
    THEN LET k == s.slot
             s4 == IF k # NoDom
                   THEN LET uiComponent == s.el[k].uiComponent
                            s1 == IF uiComponent # None /\ uiComponent # u /\ isVisible(s, uiComponent)
                                  THEN fire(s, uiComponent, "hide") ELSE s
                            s2 == s1
                            s3 == IF uiComponent # None
                                  THEN _switchMapEvents(s2, uiComponent, "off") ELSE s2
                        IN Log([s3 EXCEPT !.slot = NoDom], Ev("unslot", None, "", k))
                   ELSE s
         IN [s4 EXCEPT !.uiDOM[u] = NoDom]
    ELSE IF s.uiDOM[u] # NoDom
         THEN [removeDomNode(s, s.uiDOM[u]) EXCEPT !.uiDOM[u] = NoDom]
         ELSE s, u)

\* as _removePrevDOM, but the previous occupant is notified whether visible or not
_removePrevDOM_alwaysHide(s, u) ==
    _disposeObserver(
    IF _singleton(u)
    THEN LET k == s.slot
             s4 == IF k # NoDom
                   THEN LET uiComponent == s.el[k].uiComponent
                            s1 == IF uiComponent # None /\ uiComponent # u
                                  THEN fire(s, uiComponent, "hide") ELSE s
                            s2 == removeDomNode(s1, k)
                            s3 == IF uiComponent # None
                                  THEN _switchMapEvents(s2, uiComponent, "off") ELSE s2
                        IN Log([s3 EXCEPT !.slot = NoDom], Ev("unslot", None, "", k))
                   ELSE s
         IN [s4 EXCEPT !.uiDOM[u] = NoDom]
    ELSE IF s.uiDOM[u] # NoDom
         THEN [removeDomNode(s, s.uiDOM[u]) EXCEPT !.uiDOM[u] = NoDom]
         ELSE s, u)

\* as _removePrevDOM, but a non-singleton keeps the reference to its element
_removePrevDOM_keepRef(s, u) ==
    _disposeObserver(
    IF _singleton(u)
    THEN LET k == s.slot
             s4 == IF k # NoDom
                   THEN LET uiComponent == s.el[k].uiComponent
                            s1 == IF uiComponent # None /\ uiComponent # u /\ isVisible(s, uiComponent)
                                  THEN fire(s, uiComponent, "hide") ELSE s
                            s2 == removeDomNode(s1, k)
                            s3 == IF uiComponent # None
                                  THEN _switchMapEvents(s2, uiComponent, "off") ELSE s2
                        IN Log([s3 EXCEPT !.slot = NoDom], Ev("unslot", None, "", k))
                   ELSE s
         IN [s4 EXCEPT !.uiDOM[u] = NoDom]
    ELSE IF s.uiDOM[u] # NoDom
         THEN removeDomNode(s, s.uiDOM[u])
         ELSE s, u)

\* as _removePrevDOM, but the map's slot keeps the element
_removePrevDOM_keepSlot(s, u) ==
    _disposeObserver(
    IF _singleton(u)
    THEN LET k == s.slot
             s4 == IF k # NoDom
                   THEN LET uiComponent == s.el[k].uiComponent
                            s1 == IF uiComponent # None /\ uiComponent # u /\ isVisible(s, uiComponent)
                                  THEN fire(s, uiComponent, "hide") ELSE s
                            s2 == removeDomNode(s1, k)
                            s3 == IF uiComponent # None
                                  THEN _switchMapEvents(s2, uiComponent, "off") ELSE s2
                        IN Log(s3, Ev("unslot", None, "", k))
                   ELSE s
         IN [s4 EXCEPT !.uiDOM[u] = NoDom]
    ELSE IF s.uiDOM[u] # NoDom
         THEN [removeDomNode(s, s.uiDOM[u]) EXCEPT !.uiDOM[u] = NoDom]
         ELSE s, u)

\* as _removePrevDOM, but the caller is notified too when it is the occupant
_removePrevDOM_hideSelf(s, u) ==
    _disposeObserver(
    IF _singleton(u)
    THEN LET k == s.slot
             s4 == IF k # NoDom
                   THEN LET uiComponent == s.el[k].uiComponent
                            s1 == IF uiComponent # None /\ isVisible(s, uiComponent)
                                  THEN fire(s, uiComponent, "hide") ELSE s
                            s2 == removeDomNode(s1, k)
                            s3 == IF uiComponent # None
                                  THEN _switchMapEvents(s2, uiComponent, "off") ELSE s2
                        IN Log([s3 EXCEPT !.slot = NoDom], Ev("unslot", None, "", k))
                   ELSE s
         IN [s4 EXCEPT !.uiDOM[u] = NoDom]
    ELSE IF s.uiDOM[u] # NoDom
         THEN [removeDomNode(s, s.uiDOM[u]) EXCEPT !.uiDOM[u] = NoDom]
         ELSE s, u)

_removePrevDOM(s, u) ==
    _disposeObserver(
    IF _singleton(u)
    THEN LET k == s.slot
             s4 == IF k # NoDom
                   THEN LET uiComponent == s.el[k].uiComponent
                            s1 == IF uiComponent # None /\ uiComponent # u /\ isVisible(s, uiComponent)
                                  THEN fire(s, uiComponent, "hide") ELSE s
                            s2 == removeDomNode(s1, k)
                            s3 == IF uiComponent # None
                                  THEN _switchMapEvents(s2, uiComponent, "off") ELSE s2
                        IN Log([s3 EXCEPT !.slot = NoDom], Ev("unslot", None, "", k))
                   ELSE s
         IN [s4 EXCEPT !.uiDOM[u] = NoDom]
    ELSE IF s.uiDOM[u] # NoDom
         THEN [removeDomNode(s, s.uiDOM[u]) EXCEPT !.uiDOM[u] = NoDom]
         ELSE s, u)

\* _autoPan(): lengths are counted in 1/Scale pixel, as the points are
_autoPan(s, u) ==
    IF isMoving THEN s
    ELSE IF getOffset[u] = NoOffset
    THEN \* this.getOffset is not a function: TypeError
         [s EXCEPT !.threw = TRUE]
    ELSE
    LET point == RoundPt(_getViewPoint(s, u))
        mapWidth == MapWidth * Scale
        mapHeight == MapHeight * Scale
        containerPoint0 == viewPointToContainerPoint(point)
        containerPoint == Add(containerPoint0, getOffset[u])
        domWidth == clientSize[1] * Scale
        domHeight == clientSize[2] * Scale
        margin == Margin * Scale
        left0 == IF containerPoint[1] < 0 THEN -containerPoint[1] + margin
                 ELSE IF containerPoint[1] + domWidth > mapWidth
                 THEN -((containerPoint[1] + domWidth) - mapWidth) - margin
                 ELSE 0
        d0 == containerPoint[2] - domHeight
        top == IF d0 < 0 THEN Abs(d0) + margin
               ELSE IF containerPoint[2] + domHeight > mapHeight
               THEN (mapHeight - (containerPoint[2] + domHeight)) - margin
               ELSE 0
        left == IF domWidth >= mapWidth THEN mapWidth \div 2 - containerPoint0[1] ELSE left0
    IN IF top # 0 \/ left # 0 THEN _panAnimation(s, left, top) ELSE s

_measureSize(s, d) ==
    LET s1 == [s EXCEPT !.el[d].display = ""]
        s2 == appendChild(s1, d)
    IN [s2 EXCEPT !.el[d].display = "none"]

\* the steps of show() that depend on a condition
\* showstart / showend, unless the owner's change caused the reshow
fireShow(s, u, type) == IF ~s.showBySymbolChange[u] THEN fire(s, u, type) ELSE s

\* the map events are switched on unless they are on
ensureMapEvents(s, u) == IF ~s.mapEventsOn[u] THEN _switchMapEvents(s, u, "on") ELSE s

\* a singleton tags the element and stores it in the map's slot
tagSingleton(s, u, d) ==
    IF _singleton(u)
    THEN Log([s EXCEPT !.el[d].uiComponent = u, !.slot = d], Ev("slot", None, "", d))
    ELSE s

\* the state the transition starts from
enterStart(s, u, d, anim, ok) ==
    IF ok
    THEN Log([s EXCEPT !.el[d].opacity = IF anim.fade THEN "0" ELSE @,
                       !.el[d].scale = IF anim.scale THEN "0" ELSE @],
             Ev("style", u, "start", d))
    ELSE s

autoPanIfSet(s, u) == IF autoPan[u] THEN _autoPan(s, u) ELSE s

\* the transition and the state it ends in
enterEnd(s, u, d, anim, ok) ==
    IF ok /\ anim.transition # <<>>
    THEN Log([s EXCEPT !.el[d].transition = anim.transition,
                       !.el[d].opacity = IF anim.fade THEN "1" ELSE @,
                       !.el[d].scale = IF anim.scale THEN "1" ELSE @],
             Ev("style", u, "end", d))
    ELSE s

\* the rest of show() after _autoPan, which an error raised there skips
showEnd(s, u, d, anim, ok) ==
    IF s.threw THEN s
    ELSE _collides(fireShow(enterEnd(s, u, d, anim, ok), u, "showend"), u)

\* show(coordinate): coord is the argument (NoCoord: none was given), d is the
\* element buildOn returns (NoDom: it returns no element)
show(s, u, coord, d) ==
    IF getMap(s, u) = None THEN s
    ELSE
    LET c == IF coord # NoCoord THEN coord
             ELSE IF s.coordinate[u] # NoCoord THEN s.coordinate[u]
             ELSE getCenter(s, s.owner[u])
        visible == isVisible([s EXCEPT !.optVisible[u] = TRUE], u)
        s1 == fireShow([s EXCEPT !.optVisible[u] = TRUE], u, "showstart")
        s2 == [s1 EXCEPT !.coordinate[u] = c]
        s3 == _removePrevDOM(s2, u)
        s4 == ensureMapEvents(s3, u)
    IN IF d = NoDom
       THEN \* dom['eventsPropagation'] = ... on no element: TypeError
            [s4 EXCEPT !.uiDOM[u] = NoDom, !.threw = TRUE]
       ELSE
       LET s5 == _observerDomSize([s4 EXCEPT !.uiDOM[u] = d, !.el[d].builder = u], u, d)
           s6 == _measureSize(s5, d)
           s7 == tagSingleton(s6, u, d)
           s8 == [_setPosition(s7, u) EXCEPT !.el[d].transition = <<>>]
           s9 == appendChild(s8, d)
           anim == _getAnimation(animation[u], animationDuration[u])
           ok == anim.ok /\ ~visible
           s10 == enterStart(s9, u, d, anim, ok)
           s11 == [s10 EXCEPT !.el[d].display = ""]
           s12 == autoPanIfSet(s11, u)
       IN showEnd(s12, u, d, anim, ok)

\* hide() past its first check: the overlay has an element
hideElement(s, u) ==
    LET d == getDOM(s, u)
        s1 == [s EXCEPT !.optVisible[u] = FALSE]
        anim == _getAnimation(animation[u], animationDuration[u])
        ok == anim.ok /\ animationOnHide[u]
        s2 == IF ~ok
              THEN fire([s1 EXCEPT !.el[d].display = "none"], u, "hide")
              ELSE [s1 EXCEPT !.el[d].transition = anim.transition, !.timers[d] = @ + 1]
        s3 == [s2 EXCEPT !.el[d].opacity = IF anim.fade THEN "0" ELSE @,
                         !.el[d].scale = IF anim.scale THEN "0" ELSE @]
        s4 == _switchMapEvents(s3, u, "off")
    IN _collides(s4, u)

\* as hide, without the check for an element
hide_noGuard(s, u) ==
    IF getDOM(s, u) = NoDom
    THEN _collides(_switchMapEvents(fire([s EXCEPT !.optVisible[u] = FALSE], u, "hide"), u, "off"), u)
    ELSE hideElement(s, u)

hide(s, u) ==
    IF getDOM(s, u) = NoDom THEN s
    ELSE hideElement(s, u)

\* as hideTimeout, but the callback does nothing when the overlay was shown again
hideTimeout_ifHidden(s, d) ==
    IF s.optVisible[s.el[d].builder]
    THEN [s EXCEPT !.timers[d] = @ - 1]
    ELSE fire([s EXCEPT !.el[d].display = "none", !.timers[d] = @ - 1], s.el[d].builder, "hide")

\* the callback hide() hands to setTimeout, with the dom it captured
hideTimeout(s, d) ==
    fire([s EXCEPT !.el[d].display = "none", !.timers[d] = @ - 1], s.el[d].builder, "hide")

\* the same callback when nothing but the closure references the element
staleHideTimeout(s, u) == fire([s EXCEPT !.staleTimers[u] = @ - 1], u, "hide")

\* remove() takes the element of a non-singleton out
removeOwnDOM(s, u) ==
    IF ~_singleton(u) /\ s.uiDOM[u] # NoDom THEN _removePrevDOM(s, u) ELSE s

remove(s, u) ==
    LET s0 == [s EXCEPT !.mapEventsOn[u] = FALSE] IN
    IF s0.owner[u] = None THEN s0
    ELSE
    LET s1 == IF getMap(s0, u) # None THEN removeUI(s0, u) ELSE s0
        s2 == hide(s1, u)
        s3 == _switchEvents(s2, u, "off")
        s4 == removeOwnDOM(s3, u)
        s5 == [s4 EXCEPT !.owner[u] = None]
        s6 == fire(s5, u, "remove")
    IN _collides(s6, u)

addTo(s, u, o) ==
    LET s1 == [s EXCEPT !.owner[u] = o]
        s2 == _switchEvents(s1, u, "on")
    IN fire(s2, u, "add")

\* after the reshow _showBySymbolChange is cleared, unless show() raised an error
reshown(s, u) == IF s.threw THEN s ELSE [s EXCEPT !.showBySymbolChange[u] = FALSE]

\* the owner's positionchange handler; target is param.target, d the element
\* buildOn returns in the reshow
onGeometryPositionChange(s, u, target, d) ==
    IF s.owner[u] # None /\ isVisible(s, u)
    THEN reshown(show([s EXCEPT !.showBySymbolChange[u] = TRUE], u, getCenter(s, target), d), u)
    ELSE s

\* the map's event handlers of _getDefaultEvents
onMoving(s, u, isTransforming) ==
    IF isVisible(s, u) /\ isTransforming THEN _updatePosition(s, u) ELSE s
onEvent(s, u) == IF isVisible(s, u) THEN _updatePosition(s, u) ELSE s
\* as onZoomEnd, but the reposition is left to the next frame
onZoomEnd_deferred(s, u) == IF isVisible(s, u) THEN _updatePosition(s, u) ELSE s

onZoomEnd(s, u) == IF isVisible(s, u) THEN _setPosition(s, u) ELSE s
onResize(s, u) == IF isVisible(s, u) THEN _setPosition(s, u) ELSE s

onDomSizeChange(s, u) == IF isVisible(s, u) THEN _collides(_setPosition(s, u), u) ELSE s

\* the callback of the overlay's ResizeObserver, called with one entry
resizeCallback(s, u) == onDomSizeChange([s EXCEPT !.domContentRect[u] = TRUE], u)

\* ------------------------------------------------------------ element pool
\* an element the program can still read: an overlay, the slot or the container
\* references it
Live(s, d) ==
    \/ \E u \in UI : s.uiDOM[u] = d
    \/ s.slot = d
    \/ s.el[d].parent
    \/ \E u \in UI : <<u, d>> \in s.observations

FreeIds == {d \in DomIds : ~Live(State, d) /\ timers[d] = 0}
NewDom == CHOOSE d \in FreeIds : \A e \in FreeIds : d <= e

\* elements nothing references are forgotten; an element only a timer closure
\* references is forgotten too, its timers stay pending for the overlay
Collect(s) ==
    LET dead == {d \in DomIds : ~Live(s, d)} IN
    [s EXCEPT !.el = [d \in DomIds |-> IF d \in dead THEN EmptyEl ELSE s.el[d]],
              !.timers = [d \in DomIds |-> IF d \in dead THEN 0 ELSE s.timers[d]],
              !.staleTimers = [u \in UI |-> s.staleTimers[u] +
                    Sum(s.timers, {d \in dead : s.el[d].builder = u})]]

\* ------------------------------------------------------------------ actions
\* facts about the state a call starts in, for the receiver u of the call
Hidden(s, u) ==
    /\ s.uiDOM[u] # NoDom
    /\ (~s.el[s.uiDOM[u]].parent \/ s.el[s.uiDOM[u]].display = "none")
    /\ s.timers[s.uiDOM[u]] = 0
Pre(u) ==
    [vis |-> {v \in UI : isVisible(State, v)},
     dom |-> (u # None /\ uiDOM[u] # NoDom),
     hidden |-> (u # None /\ Hidden(State, u)),
     owner |-> IF u = None THEN None ELSE owner[u],
     map |-> (u # None /\ getMap(State, u) # None),
     afterShow |-> (u # None /\ last.op = "show" /\ last.ui = u)]

Apply(r, op, u, arg) ==
    \E s \in {Collect(r)} :
    /\ owner' = s.owner
    /\ optVisible' = s.optVisible
    /\ uiDOM' = s.uiDOM
    /\ mapEventsOn' = s.mapEventsOn
    /\ pos' = s.pos
    /\ el' = s.el
    /\ slot' = s.slot
    /\ mapListeners' = s.mapListeners
    /\ ownerSubs' = s.ownerSubs
    /\ uiList' = s.uiList
    /\ uiCollidesQueue' = s.uiCollidesQueue
    /\ timers' = s.timers
    /\ staleTimers' = s.staleTimers
    /\ frameCbs' = s.frameCbs
    /\ resizeObserver' = s.resizeObserver
    /\ observations' = s.observations
    /\ domContentRect' = s.domContentRect
    /\ view' = s.view
    /\ center' = s.center
    /\ coordinate' = s.coordinate
    /\ showBySymbolChange' = s.showBySymbolChange
    /\ last' = [op |-> op, ui |-> u, arg |-> arg, trace |-> s.trace, threw |-> s.threw,
                pans |-> s.pans,
                changed |-> ([s EXCEPT !.trace = <<>>, !.pans = <<>>, !.threw = FALSE] # State),
                pre |-> Pre(u)]
    /\ UNCHANGED config

\* the positioning options and the animation duration have their defaults, and
\* the class has no getOffset
DefaultPose ==
    /\ animationDuration = [u \in UI |-> DefaultDuration]
    /\ roundPoint = [u \in UI |-> FALSE]
    /\ dx = [u \in UI |-> 0]
    /\ dy = [u \in UI |-> 0]
    /\ getOffset = [u \in UI |-> NoOffset]

\* autoPan has its default; the map is at rest
DefaultPan ==
    /\ autoPan = [u \in UI |-> FALSE]
    /\ clientSize = <<1, 1>>
    /\ isMoving = FALSE

\* the overlays after construction, on a map in view 0 with its owners
Constructed ==
    /\ view = 0
    /\ center = [o \in Geometries |-> 0]
    /\ coordinate = [u \in UI |-> NoCoord]
    /\ showBySymbolChange = [u \in UI |-> FALSE]
    /\ owner = [u \in UI |-> None]
    /\ optVisible = [u \in UI |-> TRUE]
    /\ uiDOM = [u \in UI |-> NoDom]
    /\ mapEventsOn = [u \in UI |-> FALSE]
    /\ pos = [u \in UI |-> NoPoint]
    /\ el = [d \in DomIds |-> EmptyEl]
    /\ slot = NoDom
    /\ mapListeners = {}
    /\ ownerSubs = {}
    /\ uiList = {}
    /\ uiCollidesQueue = FALSE
    /\ timers = [d \in DomIds |-> 0]
    /\ staleTimers = [u \in UI |-> 0]
    /\ frameCbs = [u \in UI |-> 0]
    /\ resizeObserver = [u \in UI |-> FALSE]
    /\ observations = {}
    /\ domContentRect = [u \in UI |-> FALSE]
    /\ last = [op |-> "new", ui |-> None, arg |-> None, trace |-> <<>>, threw |-> FALSE,
               pans |-> <<>>,
               changed |-> FALSE,
               pre |-> [vis |-> {}, dom |-> FALSE, hidden |-> FALSE, owner |-> None, map |-> FALSE,
                        afterShow |-> FALSE]]

Init ==
    /\ single \in [UI -> BOOLEAN]
    /\ animation \in [UI -> AnimationOptions]
    /\ animationOnHide \in [UI -> BOOLEAN]
    /\ DefaultPose
    /\ DefaultPan
    /\ Constructed

AddTo(u, o) ==
    /\ o \in Owners
    /\ Apply(addTo(State, u, o), "addTo", u, o)

\* show() where buildOn returns a new element
Show(u) ==
    /\ FreeIds # {}
    /\ Apply(show(State, u, NoCoord, NewDom), "show", u, "dom")

\* show() where buildOn returns the element it returned before (a subclass
\* that keeps its element)
ShowSame(u) ==
    /\ uiDOM[u] # NoDom
    /\ Apply(show(State, u, NoCoord, uiDOM[u]), "show", u, "same")

\* show() where buildOn returns no element
ShowNoDom(u) ==
    /\ u \in UI
    /\ Apply(show(State, u, NoCoord, NoDom), "show", u, "null")

Hide(u) ==
    LET r == hide(State, u) IN
    /\ TimerCount(r) <= MaxTimers
    /\ Apply(r, "hide", u, None)

Remove(u) ==
    LET r == remove(State, u) IN
    /\ TimerCount(r) <= MaxTimers
    /\ Apply(r, "remove", u, None)

HideTimeout(d) ==
    /\ timers[d] > 0
    /\ Apply(hideTimeout(State, d), "hideTimeout", el[d].builder, d)

StaleHideTimeout(u) ==
    /\ staleTimers[u] > 0
    /\ Apply(staleHideTimeout(State, u), "hideTimeout", u, NoDom)

\* getPosition(): no state is written, the result is recorded in last.arg
\* (with a map and no coordinate yet, the projection is handed undefined and throws)
GetPosition(u) ==
    /\ u \in UI
    /\ IF getMap(State, u) # None /\ coordinate[u] = NoCoord
       THEN Apply([State EXCEPT !.threw = TRUE], "getPosition", u, NoPoint)
       ELSE Apply(State, "getPosition", u, getPosition(State, u))

\* _getAnimation(): no state is written, the plan is recorded in last.arg
GetAnimation(u) ==
    /\ u \in UI
    /\ Apply(State, "getAnimation", u, _getAnimation(animation[u], animationDuration[u]))

\* onConfig(): the deferred-reposition request
OnConfig(u) ==
    LET r == _updatePosition(State, u) IN
    /\ r.frameCbs[u] <= MaxFrameCbs
    /\ Apply(r, "onConfig", u, None)

\* the map's frame: the queued callbacks run, then the collision pass empties its queue
\* the browser reports a size of an element that overlay u's observer observes
DomResize(u) ==
    /\ \E d \in DomIds : <<u, d>> \in observations
    /\ Apply(resizeCallback(State, u), "domResize", u, None)

RECURSIVE RunCbs(_, _, _)
RunCbs(s, u, n) == IF n = 0 THEN s ELSE RunCbs(_setPosition(s, u), u, n - 1)
RECURSIVE RunAll(_, _)
RunAll(s, S) ==
    IF S = {} THEN s
    ELSE LET u == CHOOSE x \in S : TRUE
         IN RunAll([RunCbs(s, u, s.frameCbs[u]) EXCEPT !.frameCbs[u] = 0], S \ {u})
Frame ==
    /\ (uiCollidesQueue \/ \E u \in UI : frameCbs[u] > 0)
    /\ Apply([RunAll(State, UI) EXCEPT !.uiCollidesQueue = FALSE], "frame", None, frameCbs)

\* the map changes its view and fires one of its events: the handlers of the
\* overlays registered on the map run one after the other
MapEvents == {"zooming", "zoomend", "moving", "moveend", "resize"}
handle(s, u, type, isTransforming) ==
    CASE type = "zooming" -> onEvent(s, u)
      [] type = "zoomend" -> onZoomEnd(s, u)
      [] type \in {"moving", "moveend"} -> onMoving(s, u, isTransforming)
      [] type = "resize" -> onResize(s, u)
RECURSIVE NotifyMap(_, _, _, _)
NotifyMap(s, S, type, isTransforming) ==
    IF S = {} THEN s
    ELSE LET u == CHOOSE x \in S : TRUE
         IN NotifyMap(handle(s, u, type, isTransforming), S \ {u}, type, isTransforming)
MapEvent(type, isTransforming) ==
    LET s0 == [State EXCEPT !.view = (@ + 1) % (MaxView + 1)]
        r == NotifyMap(s0, mapListeners, type, isTransforming)
    IN /\ type \in {"moving", "moveend"} \/ isTransforming = (type = "zooming")
       /\ \A u \in UI : r.frameCbs[u] <= MaxFrameCbs
       /\ Apply(r, "mapEvent", None, [type |-> type, isTransforming |-> isTransforming])

\* a geometry moves or changes its symbol and fires the event: the handlers of
\* the overlays registered on it run one after the other, until one throws
\* (doms: the elements buildOn returns in the reshows, <<>> if it returns none)
Subscribers(o) == {u \in UI : <<u, o>> \in ownerSubs}
RECURSIVE SortedSeq(_)
SortedSeq(S) ==
    IF S = {} THEN <<>>
    ELSE LET m == CHOOSE e \in S : \A f \in S : e <= f
         IN <<m>> \o SortedSeq(S \ {m})
RECURSIVE NotifyOwner(_, _, _, _, _)
NotifyOwner(s, S, o, type, doms) ==
    IF S = {} \/ s.threw THEN s
    ELSE LET u == CHOOSE x \in S : TRUE
         IN NotifyOwner(IF type = "positionchange"
                        THEN onGeometryPositionChange(s, u, o,
                                IF doms = <<>> THEN NoDom ELSE Head(doms))
                        ELSE _updatePosition(s, u),
                        S \ {u}, o, type, IF doms = <<>> THEN doms ELSE Tail(doms))
PositionChange(o, built) ==
    LET s0 == [State EXCEPT !.center[o] = (@ + 1) % (MaxCoord + 1)] IN
    /\ Cardinality(FreeIds) >= Cardinality(Subscribers(o))
    /\ Apply(NotifyOwner(s0, Subscribers(o), o, "positionchange",
                         IF built = "null" THEN <<>> ELSE SortedSeq(FreeIds)),
             "positionchange", None, o)
SymbolChange(o) ==
    LET r == NotifyOwner(State, Subscribers(o), o, "symbolchange", <<>>) IN
    /\ \A u \in UI : r.frameCbs[u] <= MaxFrameCbs
    /\ Apply(r, "symbolchange", None, o)

\* the lifecycle calls on the overlays U with the owners O, and the hide timers
Lifecycle(U, O) ==
    \/ \E u \in U, o \in O : AddTo(u, o)
    \/ \E u \in U : Show(u)
    \/ \E u \in U : ShowNoDom(u)
    \/ \E u \in U : Hide(u)
    \/ \E u \in U : Remove(u)
    \/ \E d \in DomIds : HideTimeout(d)
    \/ \E u \in U : StaleHideTimeout(u)

\* overlay B is not used
InitOne == Init /\ single["B"] /\ animation["B"] = <<>> /\ ~animationOnHide["B"]

\* one overlay with every kind of owner and every configuration
Next == Lifecycle({"A"}, Owners)
Spec == InitOne /\ [][Next]_vars

\* one overlay that hides without timer: lifecycle, positioning and the map's frame
InitPos == InitOne /\ ~animationOnHide["A"]
NextPos ==
    \/ \E o \in Owners : AddTo("A", o)
    \/ Show("A")
    \/ Hide("A")
    \/ Remove("A")
    \/ GetPosition("A")
    \/ OnConfig("A")
    \/ Frame
SpecPos == InitPos /\ [][NextPos]_vars

\* two overlays of the class on one map: A is a singleton and may hide with a
\* timer, B is a singleton or not and hides without timer
InitPair ==
    /\ Init
    /\ \A u \in UI : animation[u] = <<"scale">>
    /\ single["A"]
    /\ ~animationOnHide["B"]
NextPair == Lifecycle(UI, {"map"})
SpecPair == InitPair /\ [][NextPair]_vars

\* the animation plan of one overlay for every options.animation of at most
\* MaxLen lexical units and two durations
RECURSIVE Strings(_)
Strings(n) ==
    IF n = 0 THEN {<<>>}
    ELSE LET S == Strings(n - 1)
         IN S \cup {Append(str, x) : str \in {z \in S : Len(z) = n - 1}, x \in Lex}
InitAnim ==
    /\ single = [u \in UI |-> TRUE]
    /\ animationOnHide = [u \in UI |-> FALSE]
    /\ animation \in {[u \in UI |-> IF u = "A" THEN str ELSE <<>>] : str \in Strings(MaxLen)}
    /\ animationDuration \in {[u \in UI |-> IF u = "A" THEN ms ELSE DefaultDuration] :
                                ms \in {0, DefaultDuration}}
    /\ roundPoint = [u \in UI |-> FALSE]
    /\ dx = [u \in UI |-> 0]
    /\ dy = [u \in UI |-> 0]
    /\ getOffset = [u \in UI |-> NoOffset]
    /\ DefaultPan
    /\ Constructed
NextAnim == GetAnimation("A")
SpecAnim == InitAnim /\ [][NextAnim]_vars

\* the pose of one overlay on the map for whole and fractional values of dx, dy
\* and of the subclass's offset, with and without roundPoint, in every view
InitPose ==
    /\ single = [u \in UI |-> TRUE]
    /\ animation = [u \in UI |-> <<>>]
    /\ animationOnHide = [u \in UI |-> FALSE]
    /\ animationDuration = [u \in UI |-> DefaultDuration]
    /\ roundPoint \in {[u \in UI |-> u = "A" /\ b] : b \in BOOLEAN}
    /\ dx \in {[u \in UI |-> IF u = "A" THEN x ELSE 0] : x \in {2, 5 * Scale}}
    /\ dy \in {[u \in UI |-> IF u = "A" THEN y ELSE 0] : y \in {1, -3 * Scale}}
    /\ getOffset \in {[u \in UI |-> IF u = "A" THEN o ELSE NoOffset] :
                        o \in {NoOffset, <<0, 0>>, <<2, 2>>, <<-6, 1>>}}
    /\ DefaultPan
    /\ Constructed
NextPose ==
    \/ AddTo("A", "map")
    \/ Show("A")
    \/ GetPosition("A")
    \/ MapEvent("zoomend", FALSE)
SpecPose == InitPose /\ [][NextPose]_vars

\* one overlay that hides with a timer and whose buildOn returns a new element
\* or the element it returned before
InitRace == InitOne /\ animation["A"] = <<"scale">> /\ animationOnHide["A"]
NextRace ==
    \/ \E o \in {"map", "geo"} : AddTo("A", o)
    \/ Show("A")
    \/ ShowSame("A")
    \/ Hide("A")
    \/ Remove("A")
    \/ \E d \in DomIds : HideTimeout(d)
    \/ StaleHideTimeout("A")
SpecRace == InitRace /\ [][NextRace]_vars

\* one singleton overlay that hides without timer, on a geometry that is on the
\* map or on no map: the lifecycle calls, the map's events and the map's frame
InitEvents == InitOne /\ single["A"] /\ animation["A"] = <<>> /\ ~animationOnHide["A"]
NextMapEvents ==
    \/ \E o \in Geometries : AddTo("A", o)
    \/ Show("A")
    \/ Hide("A")
    \/ Remove("A")
    \/ \E type \in MapEvents, isTransforming \in BOOLEAN : MapEvent(type, isTransforming)
    \/ Frame
SpecMapEvents == InitEvents /\ [][NextMapEvents]_vars

\* the same overlay on the geometry "geo": the lifecycle calls, the geometry's
\* events and the map's frame
NextOwnerEvents ==
    \/ AddTo("A", "geo")
    \/ Show("A")
    \/ ShowNoDom("A")
    \/ Hide("A")
    \/ Remove("A")
    \/ \E built \in {"dom", "null"} : PositionChange("geo", built)
    \/ SymbolChange("geo")
    \/ Frame
SpecOwnerEvents == InitEvents /\ [][NextOwnerEvents]_vars

\* one overlay on the map, with and without autoPan, on a map at rest or
\* moving: the anchor lies left of, inside and right of (above, inside and below)
\* the container, for elements smaller and larger than the container
PanXs == {-2, 0, 3, 7}
PanYs == {-2, 1, 4, 7}
PanSizes == {<<2, 2>>, <<3, 5>>, <<8, 3>>, <<9, 1>>}
InitPan ==
    /\ single = [u \in UI |-> TRUE]
    /\ animation = [u \in UI |-> <<>>]
    /\ animationOnHide = [u \in UI |-> FALSE]
    /\ animationDuration = [u \in UI |-> DefaultDuration]
    /\ roundPoint = [u \in UI |-> FALSE]
    /\ dx \in {[u \in UI |-> IF u = "A" THEN x * Scale ELSE 0] : x \in PanXs}
    /\ dy \in {[u \in UI |-> IF u = "A" THEN y * Scale ELSE 0] : y \in PanYs}
    /\ getOffset \in {[u \in UI |-> IF u = "A" THEN o ELSE NoOffset] :
                        o \in {NoOffset, <<0, 0>>, <<-Scale, -2 * Scale>>}}
    /\ autoPan \in {[u \in UI |-> u = "A" /\ b] : b \in BOOLEAN}
    /\ clientSize \in PanSizes
    /\ isMoving \in BOOLEAN
    /\ Constructed
NextPan ==
    \/ AddTo("A", "map")
    \/ Show("A")
    \/ Hide("A")
SpecPan == InitPan /\ [][NextPan]_vars

\* two overlays without animation on one map, A a singleton, B a singleton or
\* not: the lifecycle calls and the callbacks of their resize observers
InitObserver ==
    /\ Init
    /\ \A u \in UI : animation[u] = <<>> /\ ~animationOnHide[u]
    /\ single["A"]
NextObserver ==
    \/ \E u \in UI : AddTo(u, "map")
    \/ \E u \in UI : Show(u)
    \/ \E u \in UI : Hide(u)
    \/ \E u \in UI : Remove(u)
    \/ \E u \in UI : DomResize(u)
SpecObserver == InitObserver /\ [][NextObserver]_vars

\* one overlay on the map with a fade, a scale or a fade and scale animation,
\* hiding with or without timer: show, hide, the hide timer, a map event that
\* defers the reposition, and the map's frame
StyleAnimations == {<<"fade">>, <<"scale">>, <<"fade", ",", "scale">>}
InitStyle ==
    /\ single = [u \in UI |-> TRUE]
    /\ animation \in {[u \in UI |-> IF u = "A" THEN a ELSE <<>>] : a \in StyleAnimations}
    /\ animationOnHide \in {[u \in UI |-> u = "A" /\ b] : b \in BOOLEAN}
    /\ DefaultPose
    /\ DefaultPan
    /\ Constructed
NextStyle ==
    \/ AddTo("A", "map")
    \/ Show("A")
    \/ ShowSame("A")
    \/ Hide("A")
    \/ \E d \in DomIds : HideTimeout(d)
    \/ StaleHideTimeout("A")
    \/ MapEvent("zooming", TRUE)
    \/ Frame
SpecStyle == InitStyle /\ [][NextStyle]_vars

TypeOK ==
    /\ owner \in [UI -> Owners \cup {None}]
    /\ uiDOM \in [UI -> DomIds \cup {NoDom}]
    /\ slot \in DomIds \cup {NoDom}
    /\ TimerCount(State) <= MaxTimers

\* ------------------------------------------------------------------ claims
Fires(tr, u) == SelectSeq(tr, LAMBDA e : e.kind = "fire" /\ e.ui = u)
FiredTypes(tr, u) == [i \in 1..Len(Fires(tr, u)) |-> Fires(tr, u)[i].type]
Has(tr, kind) == \E i \in 1..Len(tr) : tr[i].kind = kind

Before(tr, kinds, kind) ==
    \A i, j \in 1..Len(tr) : (tr[i].kind \in kinds /\ tr[j].kind = kind) => i < j
Attached(u) == {d \in DomIds : el[d].parent /\ el[d].builder = u}

\* C1: at most one element of the singleton overlays of the class is in the
\* container, and show() takes the previous occupant out of the container and
\* out of the slot before it appends the new element
AttachedSingletons ==
    {d \in DomIds : el[d].parent /\ el[d].builder # None /\ single[el[d].builder]}
C1_OneSingletonElement ==
    /\ Cardinality(AttachedSingletons) <= 1
    /\ (last.op = "show" /\ single[last.ui]) =>
            Before(last.trace, {"detach", "unslot"}, "append")
C1_Witness ==
    /\ last.op = "show" /\ single[last.ui] /\ Has(last.trace, "append")
    /\ \E i \in 1..Len(last.trace) :
            /\ last.trace[i].kind = "detach"
            /\ el[last.trace[i].dom].builder \notin {last.ui, None}
            /\ single[el[last.trace[i].dom].builder]

\* C2: while singleton B is shown, a visible singleton A gets exactly one hide
\* notification, before B's element is attached; an A that was not visible gets none
HideIdx(tr, a) == {i \in 1..Len(tr) : tr[i] = Ev("fire", a, "hide", NoDom)}
C2_EvictedGetsOneHide ==
    \A a \in UI :
        (last.op = "show" /\ last.pre.map /\ a # last.ui /\ single[a] /\ single[last.ui]) =>
            IF a \in last.pre.vis
            THEN /\ Cardinality(HideIdx(last.trace, a)) = 1
                 /\ \A i \in HideIdx(last.trace, a), j \in 1..Len(last.trace) :
                        last.trace[j].kind = "append" => i < j
            ELSE HideIdx(last.trace, a) = {}
C2_Witness ==
    /\ last.op = "show" /\ single[last.ui] /\ Has(last.trace, "append")
    /\ \E a \in last.pre.vis : a # last.ui /\ single[a] /\ HideIdx(last.trace, a) # {}

\* C3 as claimed, its 'if' half: the map-level subscriptions are active while the
\* overlay is visible or between an animated hide() and the firing of its timer
HideTimerPending(u) == uiDOM[u] # NoDom /\ timers[uiDOM[u]] > 0 /\ ~optVisible[u]
RemovedClean(u, o) ==
    /\ <<u, o>> \notin ownerSubs
    /\ ~single[u] => (uiDOM[u] = NoDom /\ Attached(u) = {})
C5_ShowThenRemove ==
    [][\A u \in UI, o \in Owners :
        /\ (last'.op = "remove" /\ last'.ui = u /\ last'.pre.afterShow /\ last'.pre.owner = o)
                => RemovedClean(u, o)'
        /\ (last.op = "remove" /\ last.ui = u /\ last.pre.afterShow /\ last.pre.owner = o
              /\ last'.op = "hideTimeout" /\ last'.ui = u)
                => RemovedClean(u, o)']_vars
C5_Witness ==
    /\ last.op = "remove" /\ last.pre.afterShow /\ last.pre.owner = "geo"
    /\ ~single[last.ui] /\ last.ui \in last.pre.vis /\ staleTimers[last.ui] > 0

\* C6: hide() on an overlay that is already hidden and remove() on an overlay
\* that is already removed emit nothing and change nothing
C6_HideRemoveIdempotent ==
    /\ (last.op = "hide" /\ last.pre.hidden) =>
            (Fires(last.trace, last.ui) = <<>> /\ ~last.changed)
    /\ (last.op = "remove" /\ last.pre.owner = None) =>
            (Fires(last.trace, last.ui) = <<>> /\ ~last.changed)

\* C7: hide() on an overlay without element (never shown) emits nothing and
\* changes nothing
C7_HideNeverShownNoOp ==
    (last.op = "hide" /\ ~last.pre.dom) =>
        (last.trace = <<>> /\ ~last.changed /\ ~last.threw)
C7_Witness ==
    /\ last.op = "hide" /\ ~last.pre.dom
    /\ owner[last.ui] # None /\ pos[last.ui] = NoPoint /\ animationOnHide[last.ui]

\* C8: when buildOn yields no element, show() completes without error: showstart,
\* showend, collision registration, nothing attached
C8_ShowWithoutElementCompletes ==
    (last.op = "show" /\ last.arg = "null" /\ last.pre.map) =>
        /\ ~last.threw
        /\ FiredTypes(last.trace, last.ui) = <<"showstart", "showend">>
        /\ Has(last.trace, "collides")
        /\ ~Has(last.trace, "append")

\* C9: without a resolvable map show(), getPosition() and the deferred
\* reposition request do not throw, emit nothing and change nothing; getPosition()
\* returns null
C9_NoMapNoOp ==
    (last.op \in {"show", "getPosition", "onConfig"} /\ ~last.pre.map) =>
        /\ ~last.threw /\ last.trace = <<>> /\ ~last.changed
        /\ last.op = "getPosition" => last.arg = NoPoint
C9_Witness ==
    /\ last.op = "show" /\ last.pre.owner = None /\ ~last.pre.map
    /\ pos[last.ui] # NoPoint /\ uiDOM[last.ui] # NoDom

\* C10: after remove() on an attached overlay the overlay is not in the map's
\* tracking list
C10_RemoveDeregisters ==
    (last.op = "remove" /\ last.pre.owner # None) => last.ui \notin uiList

\* C11: remove() on an attached overlay with an element takes the element out of
\* the container and clears the overlay's reference to it and the slot's, unless
\* the overlay is a singleton and the slot holds the element of another instance
\* (remove() does not write the slot, so its occupant is that of the state before)
SlotOccupant == IF slot = NoDom THEN None ELSE el[slot].uiComponent
C11_RemoveTearsDown ==
    (/\ last.op = "remove" /\ last.pre.owner # None /\ last.pre.dom
     /\ ~(single[last.ui] /\ SlotOccupant \notin {None, last.ui})) =>
        /\ uiDOM[last.ui] = NoDom
        /\ Attached(last.ui) = {}
        /\ SlotOccupant # last.ui

\* C12: in a frame, an overlay with an element for which one or more deferred
\* repositions were requested since the last frame has its pose recomputed
\* exactly once
PoseCount(tr, u) == Len(SelectSeq(tr, LAMBDA e : e.kind = "pose" /\ e.ui = u))
C12_OnePosePerFrame ==
    \A u \in UI :
        (last.op = "frame" /\ last.arg[u] >= 1 /\ uiDOM[u] # NoDom) =>
            PoseCount(last.trace, u) = 1

\* C13: a hide timer is never cancelled (only its firing takes it away, show()
\* does not), and when it fires it emits hide and sets display none on the
\* element it captured, whatever the overlay's visibility flag is then
Pending(u) == staleTimers[u] + Sum(timers, {d \in DomIds : el[d].builder = u})
C13_StaleTimerFires ==
    /\ [](last.op = "hideTimeout" =>
            /\ FiredTypes(last.trace, last.ui) = <<"hide">>
            /\ last.arg # NoDom => el[last.arg].display = "none")
    /\ [][\A u \in UI : Pending(u)' < Pending(u) =>
            (last'.op = "hideTimeout" /\ last'.ui = u /\ Pending(u)' = Pending(u) - 1)]_vars
C13_Witness ==
    /\ last.op = "hideTimeout" /\ last.arg # NoDom
    /\ optVisible[last.ui] /\ mapEventsOn[last.ui]
    /\ uiDOM[last.ui] = last.arg /\ el[last.arg].parent /\ el[last.arg].display = "none"

\* C14: hide() on an overlay with an element leaves the visibility flag false
\* and the map-event subscriptions off; with an animation and animationOnHide
\* it emits nothing and schedules the timer, whose firing sets display none and
\* emits the one hide; otherwise it sets display none and emits the one hide itself
C14_HideNotifiesOnce ==
    /\ (last.op = "hide" /\ last.pre.dom) =>
        /\ ~optVisible[last.ui]
        /\ last.ui \notin mapListeners /\ ~mapEventsOn[last.ui]
        /\ IF _getAnimation(animation[last.ui], animationDuration[last.ui]).ok
                /\ animationOnHide[last.ui]
           THEN Fires(last.trace, last.ui) = <<>> /\ Pending(last.ui) >= 1
           ELSE /\ FiredTypes(last.trace, last.ui) = <<"hide">>
                /\ el[uiDOM[last.ui]].display = "none"
    /\ last.op = "hideTimeout" => FiredTypes(last.trace, last.ui) = <<"hide">>

\* C15: an external show() with a resolvable map emits showstart then showend,
\* once each; the reshow on the owner's positionchange emits neither, happens
\* only for a visible overlay, takes the owner's new center as coordinate and
\* leaves _showBySymbolChange cleared
C15_ShowStartEndPairs ==
    /\ []((last.op = "show" /\ last.pre.map) =>
            FiredTypes(last.trace, last.ui) = <<"showstart", "showend">>)
    /\ [][last'.op = "positionchange" =>
            \A u \in Subscribers(last'.arg) :
                /\ \A i \in 1..Len(last'.trace) :
                        ~(last'.trace[i].kind = "fire" /\ last'.trace[i].ui = u
                            /\ last'.trace[i].type \in {"showstart", "showend"})
                /\ IF isVisible(State, u)
                   THEN /\ coordinate'[u] = center'[last'.arg]
                        /\ Has(last'.trace, "append")
                   ELSE /\ ~Has(last'.trace, "append")
                        /\ coordinate'[u] = coordinate[u]
                /\ ~showBySymbolChange'[u]]_vars

C17_SymbolChangeReshows ==
    last.op = "symbolchange" =>
        \A u \in last.pre.vis \cap Subscribers(last.arg) :
            /\ Has(last.trace, "append")
            /\ Has(last.trace, "pose")

\* C18: for a visible overlay, zoomend and resize set the pose of the new view
\* inside the handler and queue nothing; zooming/rotate/pitch, and moving/moveend
\* while the map is transforming, leave the pose as it was and queue one
\* callback, whose run in the next frame sets the pose; for an overlay that is
\* not visible no map event changes the pose or queues a callback
C18_SyncAndDeferredReposition ==
    [][\A u \in UI :
        /\ last'.op = "mapEvent" =>
            IF isVisible(State, u)
            THEN IF last'.arg.type \in {"zoomend", "resize"}
                 THEN /\ pos'[u] = getPosition(State', u)
                      /\ PoseCount(last'.trace, u) = 1
                      /\ frameCbs'[u] = frameCbs[u]
                 ELSE /\ pos'[u] = pos[u]
                      /\ PoseCount(last'.trace, u) = 0
                      /\ frameCbs'[u] = frameCbs[u] +
                            (IF last'.arg.type = "zooming" \/ last'.arg.isTransforming
                             THEN 1 ELSE 0)
            ELSE /\ pos'[u] = pos[u]
                 /\ PoseCount(last'.trace, u) = 0
                 /\ frameCbs'[u] = frameCbs[u]
        /\ (last'.op = "frame" /\ frameCbs[u] > 0 /\ uiDOM[u] # NoDom) =>
                pos'[u] = getPosition(State', u)]_vars
C18_Witness ==
    /\ last.op = "mapEvent" /\ last.arg.type = "zooming"
    /\ isVisible(State, "A") /\ frameCbs["A"] >= 1
    /\ pos["A"] # getPosition(State, "A")

\* C19: the animation plan is a function of options.animation and
\* options.animationDuration: fade (scale) is selected iff some entry of the
\* comma-separated list is the word fade (scale) with blanks around it at most,
\* the plan is applicable iff one of them is selected, and the transition lists
\* opacity (if fade) then transform (if scale) with the configured duration
ContainsToken(str, tok) ==
    \E i, j \in 1..Len(str) :
        /\ i <= j
        /\ (i = 1 \/ str[i - 1] = ",")
        /\ (j = Len(str) \/ str[j + 1] = ",")
        /\ \E k \in i..j : str[k] = tok /\ \A m \in (i..j) \ {k} : str[m] = " "
C19_AnimationPlan ==
    last.op = "getAnimation" =>
        LET anim == last.arg
            str == animation[last.ui]
            ms == animationDuration[last.ui]
        IN /\ anim.fade <=> ContainsToken(str, "fade")
           /\ anim.scale <=> ContainsToken(str, "scale")
           /\ anim.ok <=> (anim.fade \/ anim.scale)
           /\ anim.transition =
                (IF anim.fade THEN <<[property |-> "opacity", ms |-> ms]>> ELSE <<>>)
                \o (IF anim.scale THEN <<[property |-> "transform", ms |-> ms]>> ELSE <<>>)
           /\ (str = <<"fade", ",", "scale">> /\ ms = DefaultDuration) =>
                (anim.fade /\ anim.scale /\ anim.ok)
C19_Witness ==
    /\ last.op = "getAnimation"
    /\ animation[last.ui] = <<"fade", ",", "scale">>
    /\ animationDuration[last.ui] = DefaultDuration
    /\ last.arg.ok /\ Len(last.arg.transition) = 2

\* C20: with roundPoint the pose returned by getPosition() is the projection of
\* the coordinate plus (dx,dy) plus the subclass's offset, rounded once after the
\* additions (so its values are whole pixels); without roundPoint it is that sum
Total(u) ==
    Add(Add(coordToViewPoint(view, coordinate[u]), <<dx[u], dy[u]>>),
        IF getOffset[u] # NoOffset THEN getOffset[u] ELSE <<0, 0>>)
C20_RoundedOnceAfterOffsets ==
    (last.op = "getPosition" /\ last.pre.map /\ ~last.threw) =>
        IF roundPoint[last.ui]
        THEN /\ last.arg = RoundPt(Total(last.ui))
             /\ last.arg[1] % Scale = 0 /\ last.arg[2] % Scale = 0
        ELSE last.arg = Total(last.ui)

\* C25: an overlay's owner events are registered on no owner but its current
\* one, also after addTo() on an overlay that is still attached to another owner
C25_SubscriptionsOnCurrentOwnerOnly ==
    \A u \in UI, o \in Owners : <<u, o>> \in ownerSubs => owner[u] = o

\* C27: remove() emits nothing after its remove notification, and an overlay
\* without owner emits nothing in any call or timer but addTo()
C27_SilentAfterRemove ==
    /\ (last.op = "remove" /\ last.pre.owner # None) =>
            LET f == FiredTypes(last.trace, last.ui)
            IN f # <<>> /\ f[Len(f)] = "remove"
                /\ \A i \in 1..(Len(f) - 1) : f[i] # "remove"
    /\ (last.op # "addTo" /\ last.ui # None /\ last.pre.owner = None) =>
            Fires(last.trace, last.ui) = <<>>

MapSwitches(tr, u) ==
    LET sw == SelectSeq(tr, LAMBDA e : e.kind \in {"on", "off"} /\ e.ui = u /\ e.type = "map")
    IN [i \in 1..Len(sw) |-> sw[i].kind]

\* C29: show() on an overlay that is visible and has no hide timer pending emits
\* no hide on that overlay and leaves its map events registered by one
\* registration: either the registration it had is kept untouched, or it is
\* taken off and put on again once
C29_ReshowKeepsOneSubscription ==
    (last.op = "show" /\ last.ui \in last.pre.vis /\ Pending(last.ui) = 0) =>
        /\ \A i \in 1..Len(last.trace) :
                ~(last.trace[i].kind = "fire" /\ last.trace[i].ui = last.ui
                    /\ last.trace[i].type = "hide")
        /\ last.ui \in mapListeners /\ mapEventsOn[last.ui]
        /\ MapSwitches(last.trace, last.ui) =
                (IF single[last.ui] THEN <<"off", "on">> ELSE <<>>)

\* C29: the visible occupant of the singleton slot was shown again
C29_Witness ==
    /\ last.op = "show" /\ last.ui \in last.pre.vis /\ Pending(last.ui) = 0
    /\ ~last.threw /\ single[last.ui]
    /\ SlotOccupant = last.ui /\ Has(last.trace, "unslot")
    /\ MapSwitches(last.trace, last.ui) = <<"off", "on">>

\* the overlay's box in the container: its top-left corner is the rounded view
\* point plus the subclass's offset, its size is the element's client size
BoxAt(u) ==
    LET c == viewPointToContainerPoint(RoundPt(_getViewPoint(State, u)))
        p == IF getOffset[u] = NoOffset THEN c ELSE Add(c, getOffset[u])
    IN [x |-> p[1], y |-> p[2], w |-> clientSize[1] * Scale, h |-> clientSize[2] * Scale]
BoxOutside(b) ==
    \/ b.x < 0 \/ b.x + b.w > MapWidth * Scale
    \/ b.y < 0 \/ b.y + b.h > MapHeight * Scale

\* C21: a show() that completes requests a pan only with autoPan, a map at rest
\* and a box that lies partly outside the container; a box narrower than the
\* container that exceeds its right edge by k is shifted by k plus the margin
C21_PanOnlyWhenOutside ==
    (last.op = "show" /\ last.pre.map /\ last.arg # "null" /\ ~last.threw) =>
        LET u == last.ui
            b == BoxAt(u)
            k == (b.x + b.w) - MapWidth * Scale
        IN /\ last.pans # <<>> => (autoPan[u] /\ ~isMoving /\ BoxOutside(b))
           /\ (autoPan[u] /\ ~isMoving /\ b.x >= 0 /\ k > 0 /\ b.w < MapWidth * Scale) =>
                (Len(last.pans) = 1 /\ last.pans[1][1] = -(k + Margin * Scale))

\* C24: show() with autoPan on an overlay whose class has no getOffset raises
\* no error, emits showend and takes part in the collision pass
C24_AutoPanWithoutOffset ==
    (last.op = "show" /\ last.pre.map /\ last.arg # "null"
        /\ autoPan[last.ui] /\ getOffset[last.ui] = NoOffset) =>
            /\ ~last.threw
            /\ \E i \in 1..Len(last.trace) : last.trace[i] = Ev("fire", last.ui, "showend", NoDom)
            /\ Has(last.trace, "collides")

\* C22: an overlay has at most one active resize observation, every observed
\* element is in the container (the detach step disconnects the observation of
\* the element it takes out), and a size reported by the observer is kept only
\* while the overlay has such an observation
Observed(u) == {d \in DomIds : <<u, d>> \in observations}
C22_ObserverFollowsElement ==
    \A u \in UI :
        /\ Cardinality(Observed(u)) <= 1
        /\ \A d \in Observed(u) : el[d].parent
        /\ domContentRect[u] => \E d \in Observed(u) : el[d].parent

\* the writes of the enter animation a handler made for overlay u, in order
EnterSteps(tr, u) ==
    LET st == SelectSeq(tr, LAMBDA e : e.kind = "style" /\ e.ui = u)
    IN [i \in 1..Len(st) |-> st[i].type]

\* C23: a show() that builds an element plays no enter animation on an overlay
\* that was visible: no start state, no transition, the element is in its end
\* state at once; on an overlay that was not visible and has an applicable
\* plan it applies the start state and then the transition to the end state
C23_EnterAnimationOnlyWhenHidden ==
    (last.op = "show" /\ last.pre.map /\ last.arg # "null" /\ ~last.threw) =>
        LET u == last.ui
            anim == _getAnimation(animation[u], animationDuration[u])
        IN IF u \in last.pre.vis
           THEN /\ EnterSteps(last.trace, u) = <<>>
                /\ el[uiDOM[u]].transition = <<>>
                /\ el[uiDOM[u]].scale = "1"
           ELSE anim.ok =>
                /\ EnterSteps(last.trace, u) = <<"start", "end">>
                /\ el[uiDOM[u]].transition = anim.transition

\* C26: after a frame of the map, the element of an overlay that hide() has
\* hidden is still in the end state hide() gave it: opacity 0 for fade,
\* scale(0) for scale, and the hide transition where hide() had set one
C26_FrameKeepsHiddenEndState ==
    last.op = "frame" =>
        \A u \in UI : (~optVisible[u] /\ uiDOM[u] # NoDom) =>
            LET anim == _getAnimation(animation[u], animationDuration[u])
                e == el[uiDOM[u]]
            IN /\ anim.fade => e.opacity = "0"
               /\ anim.scale => e.scale = "0"
               /\ (anim.ok /\ animationOnHide[u]) => e.transition = anim.transition
====
